---- MODULE Spec2Model ----
(***************************************************************************)
(* Model of the desktop preload script                                     *)
(* (packages/suite-desktop/src/preload/index.ts): the bridge between the   *)
(* sandboxed renderer and the host process.                                *)
(*                                                                         *)
(* One "page instance" is one execution of the preload script: the module  *)
(* level statements (sentinel cookie, deepLinks) followed by main().  A    *)
(* reload of the window starts a new page instance in the same process     *)
(* launch: argv and the session cookie jar survive, everything main()      *)
(* created is gone.                                                        *)
(***************************************************************************)
EXTENDS Integers, Sequences, FiniteSets, TLC

\* ------------------------------------------------------------------ bounds

\* Bridge operations (extension calls, listener registrations, one-way
\* sends, resetDeepLinks) issued within one page instance.
MaxOps == 3

\* Page instances of one process launch (the first load and the reloads).
MaxPages == 3

\* Invocations of one detach closure.
MaxInvoke == 2

\* One-way messages waiting at the host.
MaxInbox == 1

\* Bridge operations issued within the page instance when every operation
\* of the bridge is explored together.
MaxBridgeOps == 2

\* Interfaces the operating system lists, and address entries of one
\* interface, in the explored getNetworkInterfaces() calls.
MaxIfaces == 2
MaxAddrs == 2

\* Changes of its inputs one mounted WorkspaceContent is rendered for.
MaxRenders == 3

\* ------------------------------------------------------------- input sets

\* A value that may be undefined: the empty set, or the set of the one value.
Undefined == {}
Some(v) == {v}
The(o) == CHOOSE v \in o : TRUE

\* Event channels of ipcRenderer.  "maximize" and "unmaximize" also carry
\* the preload's own listeners; ForwardedWindowEvent and ForwardedMenuEvent
\* name the channels the renderer may subscribe to.
ForwardedWindowEvent == {"maximize", "unmaximize", "enter-full-screen"}
ForwardedMenuEvent == {"open-file"}
Events == ForwardedWindowEvent \cup ForwardedMenuEvent

\* Channels the renderer subscribes to in the explored runs.
AttachWindowEvents == {"maximize", "unmaximize"}
AttachMenuEvents == {"open-file"}

\* Handler functions the renderer passes to addIpcEventListener.
Handlers == {"h1", "h2"}

\* The preload's own listeners (lines 103-104).
SetMaximized == "() => (isMaximized = true)"
ClearMaximized == "() => (isMaximized = false)"

ExtensionOps == {"list", "load", "install", "uninstall"}

\* Value the host returns for "getHomePath", as path segments.
HomePath == <<"home", "user">>

\* Launch arguments: an argument is [name, value]; the value of a renderer
\* argument is the encoded payload put there by the host.
Encoded(v) == [wellFormed |-> TRUE, json |-> v]
Malformed == [wellFormed |-> FALSE, json |-> <<>>]
LaunchLinks == <<"lichtblick://open?ds=a", "lichtblick://open?ds=b">>
ExeArg == [name |-> "exe", value |-> Malformed]
ArgvChoices ==
  { <<ExeArg>>,
    <<ExeArg, [name |-> "deepLinks", value |-> Encoded(LaunchLinks)]>>,
    <<ExeArg, [name |-> "deepLinks", value |-> Malformed]>> }

SentinelName == "fox.ignoreDeepLinks"

\* os.networkInterfaces(): interface names in enumeration order, each with
\* its address entries (undefined, or a list of entries).  An entry carries
\* an address and a cidr, which is a string or null ("absent" stands for an
\* entry without the key, which the operating system does not produce).
IfaceNames == {"lo", "eth0", "wlan0"}
InfoChoices ==
  {[address |-> "127.0.0.1", cidr |-> "127.0.0.1/8"],
   [address |-> "10.0.0.2", cidr |-> "null"]}

RECURSIVE SeqsUpTo(_, _)
SeqsUpTo(S, n) ==
  IF n = 0 THEN {<<>>}
  ELSE LET shorter == SeqsUpTo(S, n - 1) IN
       shorter \cup {Append(q, x) : q \in shorter, x \in S}

EntryChoices == {Undefined} \cup {Some(q) : q \in SeqsUpTo(InfoChoices, MaxAddrs)}

\* An object has every key once: the names of a listing are distinct.
UnusedNames(q) == {nm \in IfaceNames : \A i \in 1..Len(q) : q[i].name # nm}

RECURSIVE IfaceListings(_)
IfaceListings(n) ==
  IF n = 0 THEN {<<>>}
  ELSE LET shorter == IfaceListings(n - 1) IN
       shorter \cup
       UNION {{Append(q, [name |-> nm, entries |-> en]) :
                 nm \in UnusedNames(q), en \in EntryChoices} :
              q \in {r \in shorter : Len(r) = n - 1}}

IfaceChoices == IfaceListings(MaxIfaces)

\* The listing of the runs that are not about getNetworkInterfaces().
HostIfaces ==
  <<[name |-> "lo",
     entries |-> Some(<<[address |-> "127.0.0.1", cidr |-> "127.0.0.1/8"]>>)]>>

\* PlayerPresence values WorkspaceContent tells apart, and the others.
PlayerPresence == {"NOT_PRESENT", "INITIALIZING", "RECONNECTING", "PRESENT", "ERROR"}

\* Deep links handed to Workspace, and what parseAppURLState makes of each:
\* undefined, or the ds, the dsParams and the time that it holds.
DeepLinkUrls ==
  {"lichtblick://open?ds=sample&ds.eventId=e1&time=t1",
   "lichtblick://open?ds=remote",
   "lichtblick://open?time=t2",
   "lichtblick://open",
   ""}

AppURLState(ds, dsParams, time) == [ds |-> ds, dsParams |-> dsParams, time |-> time]

parseAppURLState(url) ==
  IF url = "lichtblick://open?ds=sample&ds.eventId=e1&time=t1"
    THEN Some(AppURLState(Some("sample"), Some([eventId |-> "e1"]), Some("t1")))
  ELSE IF url = "lichtblick://open?ds=remote"
    THEN Some(AppURLState(Some("remote"), Undefined, Undefined))
  ELSE IF url = "lichtblick://open?time=t2"
    THEN Some(AppURLState(Undefined, Undefined, Some("t2")))
  ELSE Undefined

\* props.deepLinks: undefined, or a list of at most two links.
DeepLinksProps ==
  {Undefined, Some(<<>>)}
  \cup {Some(<<u>>) : u \in DeepLinkUrls}
  \cup {Some(<<u, "lichtblick://open?ds=remote">>) :
          u \in {"", "lichtblick://open?time=t2",
                 "lichtblick://open?ds=sample&ds.eventId=e1&time=t1"}}

\* An app configuration value that holds a boolean: unset, true or false.
BooleanSettings == {Undefined, Some(TRUE), Some(FALSE)}

\* ctx.seekPlayback: undefined, or one of two function objects.
SeekFunctions == {Undefined, Some("seek1"), Some("seek2")}

\* ------------------------------------------------------------------ state

VARIABLES
  argv,              \* window.process.argv, fixed for the process launch
  cookie,            \* document.cookie: set of [name, value], session scoped
  navPending,        \* a reload of the window has been requested
  hostInbox,         \* one-way messages sent with ipcRenderer.send
  ignoreDeepLinks,   \* module constant ignoreDeepLinks of this page instance
  deepLinks,         \* module constant deepLinks of this page instance
  isMaximized,       \* main(): let isMaximized
  extensionHandler,  \* main(): let extensionHandler
  listeners,         \* ipcRenderer's listener arrays, per channel
  closures,          \* detach closures returned by addIpcEventListener
  calls,             \* extension operations issued in this page instance:
                     \* [op, pc, handler obtained, firstUse: issued while
                     \* no handler was cached]
  ops,               \* bridge operations issued in this page instance
  lastNotif,         \* history: last maximize/unmaximize notification received
  homeReqs,          \* history: getHomePath invokes by getExtensionHandler
  constructed,       \* history: ExtensionsHandler objects constructed
  homeFailed,        \* history: some getHomePath round trip failed
  resetCalled,       \* history: resetDeepLinks() was called in this page
  pages,             \* history: per page instance, why it loaded and its links
  hostReqs,          \* history: requests the bridge operations sent to the host
  invokeFailures,    \* history: ipcRenderer.invoke round trips that failed
  oneWayFailures,    \* history: one-way messages the host failed to act on
  overlapped,        \* history: an extension operation was issued while
                     \* an earlier one had not settled
  netCall,           \* what os.networkInterfaces() lists, and what the last
                     \* getNetworkInterfaces() call returned
  sockets,           \* PreloaderSockets.Create(): status, calls, errors logged
  exposed,           \* contextBridge.exposeInMainWorld keys, in call order
  domLoaded,         \* the DOMContentLoaded listener has run
  mounted,           \* Workspace is mounted
  renders,           \* history: re-renders of the mounted WorkspaceContent
  propsDeepLinks,    \* props.deepLinks
  playerPresence,    \* playerState.presence of the message pipeline
  seek,              \* ctx.seekPlayback of the message pipeline
  selectSourceId,    \* identity of usePlayerSelection().selectSource
  selectEventId,     \* identity of the events store's selectEvent
  topNavSetting,     \* app configuration value ENABLE_NEW_TOPNAV
  desktopApp,        \* isDesktopApp()
  unappliedSourceArgs,     \* useState, line 490
  unappliedTime,           \* useState, line 513
  initialEnableNewTopNav,  \* useState, line 212
  dataSource,        \* dialogs.dataSource of the workspace store: open, item
  selectSourceCalls, \* history: selectSource calls of this mount
  selectEventCalls,  \* history: selectEvent calls of this mount
  seekCalls,         \* history: seek calls of this mount, with the presence
  mountedWith        \* history: the inputs WorkspaceContent mounted with

vars == <<argv, cookie, navPending, hostInbox, ignoreDeepLinks, deepLinks,
          isMaximized, extensionHandler, listeners, closures, calls, ops,
          lastNotif, homeReqs, constructed, homeFailed, resetCalled, pages,
          hostReqs, invokeFailures, oneWayFailures, overlapped, netCall,
          sockets, exposed, domLoaded, mounted, renders, propsDeepLinks,
          playerPresence, seek, selectSourceId, selectEventId, topNavSetting,
          desktopApp, unappliedSourceArgs, unappliedTime,
          initialEnableNewTopNav, dataSource, selectSourceCalls,
          selectEventCalls, seekCalls, mountedWith>>

\* The page's preload state, and the state of the Workspace component.
preloadVars ==
  <<argv, cookie, navPending, hostInbox, ignoreDeepLinks, deepLinks,
    isMaximized, extensionHandler, listeners, closures, calls, ops,
    lastNotif, homeReqs, constructed, homeFailed, resetCalled, pages,
    hostReqs, invokeFailures, oneWayFailures, overlapped, netCall, sockets,
    exposed, domLoaded>>

workspaceVars ==
  <<mounted, renders, propsDeepLinks, playerPresence, seek, selectSourceId,
    selectEventId, topNavSetting, desktopApp, unappliedSourceArgs,
    unappliedTime, initialEnableNewTopNav, dataSource, selectSourceCalls,
    selectEventCalls, seekCalls, mountedWith>>

\* ---------------------------------------------------------------- helpers

pathJoin(base, a, b) == base \o <<a, b>>

RECURSIVE FindArg(_, _, _)
FindArg(args, name, i) ==
  IF i > Len(args) THEN 0
  ELSE IF args[i].name = name THEN i
  ELSE FindArg(args, name, i + 1)

\* decodeRendererArg(argName, args): the decoded value of the first argument
\* carrying argName, undefined when there is none or it does not decode.
decodeRendererArg(argName, args) ==
  LET i == FindArg(args, argName, 1) IN
  IF i = 0 THEN Undefined
  ELSE IF args[i].value.wellFormed THEN Some(args[i].value.json)
  ELSE Undefined

\* document.cookie.includes("<name>=<value>")
CookieIncludes(jar, name, value) ==
  \E c \in jar : c.name = name /\ c.value = value

\* document.cookie = "<name>=<value>;"
SetCookie(jar, name, value) ==
  {c \in jar : c.name # name} \cup {[name |-> name, value |-> value]}

\* Faulty variant: the cookie is not removed.
ExpireCookie_keeps(jar, name) == jar

\* document.cookie = "<name>=;max-age=0;"
ExpireCookie(jar, name) == {c \in jar : c.name # name}

\* ------------------------------------------------- ipcRenderer listeners

\* ipcRenderer.on(eventName, handler): append to the channel's listener array.
on(ls, handler) == Append(ls, handler)

RECURSIVE LastIndexOf(_, _, _)
LastIndexOf(ls, handler, i) ==
  IF i = 0 THEN 0
  ELSE IF ls[i] = handler THEN i
  ELSE LastIndexOf(ls, handler, i - 1)

RemoveAt(ls, i) == SubSeq(ls, 1, i - 1) \o SubSeq(ls, i + 1, Len(ls))

\* Faulty variant: the removal is put off, the array is left as it is.
off_keeps(ls, handler) == ls

\* Faulty variant: drops every listener of the channel.
off_removesAll(ls, handler) == <<>>

\* ipcRenderer.off(eventName, handler): remove at most one instance of the
\* handler, the most recently added one; nothing when it is not registered.
off(ls, handler) ==
  LET i == LastIndexOf(ls, handler, Len(ls)) IN
  IF i = 0 THEN ls ELSE RemoveAt(ls, i)

\* Listener arrays right after main() has run lines 103-104.
InitialListeners ==
  [e \in Events |->
     IF e = "maximize" THEN <<SetMaximized>>
     ELSE IF e = "unmaximize" THEN <<ClearMaximized>>
     ELSE <<>>]

\* Effect of one listener on the cached flag.
ListenerEffect(l, m) ==
  IF l = SetMaximized THEN TRUE
  ELSE IF l = ClearMaximized THEN FALSE
  ELSE m

RECURSIVE RunListeners(_, _, _)
RunListeners(ls, i, m) ==
  IF i > Len(ls) THEN m
  ELSE RunListeners(ls, i + 1, ListenerEffect(ls[i], m))

\* The cached flag after the channel's listeners have run, in order.
MaximizedAfterEmit(ls, m) == RunListeners(ls, 1, m)

\* --------------------------------------------------- module level code

\* Faulty variant: looks for another value of the sentinel.
SentinelPresent_wrongValue(jar) == CookieIncludes(jar, SentinelName, "1")

\* Line 33: const ignoreDeepLinks = document.cookie.includes(...)
SentinelPresent(jar) == CookieIncludes(jar, SentinelName, "true")

\* Faulty variant: the sentinel is left in the jar.
CookieAfterLoad_keeps(jar) == jar

\* Line 34: document.cookie = "fox.ignoreDeepLinks=;max-age=0;"
CookieAfterLoad(jar) == ExpireCookie(jar, SentinelName)

\* Faulty variant: the sentinel is not consulted.
DeepLinksAtLoad_ignoresSentinel(ignore, args) ==
  LET d == decodeRendererArg("deepLinks", args) IN
  IF d = Undefined THEN <<>> ELSE The(d)

\* Line 36: ignoreDeepLinks ? [] : decodeRendererArg("deepLinks", argv) ?? []
DeepLinksAtLoad(ignore, args) ==
  IF ignore THEN <<>>
  ELSE LET d == decodeRendererArg("deepLinks", args) IN
       IF d = Undefined THEN <<>> ELSE The(d)

\* Faulty variant: the sentinel is not written.
CookieAfterReset_unset(jar) == jar

\* Line 143: document.cookie = "fox.ignoreDeepLinks=true;"
CookieAfterReset(jar) == SetCookie(jar, SentinelName, "true")

\* Lines 136-138 and 177-179: the synchronous reads.
getDeepLinks == deepLinks
isMaximizedResult == isMaximized

\* -------------------------------------------------------- extension handler

\* Lines 111-112: new ExtensionsHandler(pathJoin(homePath, ...)); id stands
\* for the identity of the object created.
NewExtensionsHandler(id, homePath) ==
  [id |-> id, dir |-> pathJoin(homePath, ".lichtblick-suite", "extensions")]

\* Faulty variant: a handler is built and cached whatever the reply was.
CachedAfterHomePath_cachesOnFailure(cur, ok, id) ==
  Some(NewExtensionsHandler(id, IF ok THEN HomePath ELSE <<>>))

\* Lines 109-113 at the point the awaited getHomePath invoke settles: the
\* assignment is reached only when the invoke resolved.
CachedAfterHomePath(cur, ok, id) ==
  IF ok THEN Some(NewExtensionsHandler(id, HomePath)) ELSE cur

\* Faulty variant: the cached handler is never looked at.
NeedsHomePath_always(cur) == TRUE

\* Line 109: the presence check; true when a round trip must be made.
NeedsHomePath(cur) == cur = Undefined

\* Lines 50-52 as main() leaves them: Create() called once, not yet settled.
SocketsAtStart == [status |-> "pending", creates |-> 1, logged |-> 0]

\* Faulty variant: hands the entry's cidr on as it is.
NormalizeCidr_keepsNull(info) == info.cidr

\* Line 90: info.cidr ?? undefined.
NormalizeCidr(info) ==
  IF info.cidr \in {"null", "absent"} THEN "undefined" ELSE info.cidr

\* Line 90: { name, ...info, cidr: info.cidr ?? undefined }.
NetworkInterface(name, info) ==
  [name |-> name, address |-> info.address, cidr |-> NormalizeCidr(info)]

\* Lines 89-91: the inner loop over the entries of one interface.
RECURSIVE PushInfos(_, _, _, _)
PushInfos(output, name, iface, j) ==
  IF j > Len(iface) THEN output
  ELSE PushInfos(Append(output, NetworkInterface(name, iface[j])),
                 name, iface, j + 1)

\* Lines 84-92: the loop over the names; line 86 skips undefined.
RECURSIVE CollectIfaces(_, _, _)
CollectIfaces(ifaces, k, output) ==
  IF k > Len(ifaces) THEN output
  ELSE IF ifaces[k].entries = Undefined
    THEN CollectIfaces(ifaces, k + 1, output)
  ELSE CollectIfaces(ifaces, k + 1,
         PushInfos(output, ifaces[k].name, The(ifaces[k].entries), 1))

\* Lines 81-94.
NetworkInterfacesOf(ifaces) == CollectIfaces(ifaces, 1, <<>>)

\* dialogs.dataSource after dataSource.close(), and after open(item).
ClosedDialog == [open |-> FALSE, item |-> Undefined]
OpenDialog(item) == [open |-> TRUE, item |-> Some(item)]

\* Lines 228-231: the keys main() publishes, in order.
ExposedByMain == <<"ctxbridge", "menuBridge", "storageBridge", "desktopBridge">>

\* The first page instance of a process launched with the given arguments,
\* as lines 33-36 and main() leave it; the session's cookie jar is empty.
LaunchOn(args, ifaces) ==
  /\ argv = args
  /\ cookie = {}
  /\ navPending = FALSE
  /\ hostInbox = <<>>
  /\ ignoreDeepLinks = SentinelPresent({})
  /\ deepLinks = DeepLinksAtLoad(SentinelPresent({}), argv)
  /\ isMaximized = FALSE
  /\ extensionHandler = Undefined
  /\ listeners = InitialListeners
  /\ closures = <<>>
  /\ calls = <<>>
  /\ ops = 0
  /\ lastNotif = "none"
  /\ homeReqs = 0
  /\ constructed = 0
  /\ homeFailed = FALSE
  /\ resetCalled = FALSE
  /\ pages = <<[cause |-> "launch",
                links |-> DeepLinksAtLoad(SentinelPresent({}), argv)]>>
  /\ hostReqs = 0
  /\ invokeFailures = 0
  /\ oneWayFailures = 0
  /\ overlapped = FALSE
  /\ netCall = [ifaces |-> ifaces, output |-> Undefined]
  /\ sockets = SocketsAtStart
  /\ exposed = ExposedByMain
  /\ domLoaded = FALSE
  /\ mounted = FALSE
  /\ renders = 0
  /\ propsDeepLinks = Undefined
  /\ playerPresence = "NOT_PRESENT"
  /\ seek = Undefined
  /\ selectSourceId = 1
  /\ selectEventId = 1
  /\ topNavSetting = Undefined
  /\ desktopApp = FALSE
  /\ unappliedSourceArgs = Undefined
  /\ unappliedTime = Undefined
  /\ initialEnableNewTopNav = TRUE
  /\ dataSource = ClosedDialog
  /\ selectSourceCalls = <<>>
  /\ selectEventCalls = <<>>
  /\ seekCalls = <<>>
  /\ mountedWith = Undefined

Launch(args) == LaunchOn(args, HostIfaces)

Init == \E args \in ArgvChoices : Launch(args)

\* A new page instance: lines 33-36, then main() (lines 102-106, 228-231).
\* Whatever the previous instance held in memory is gone with its context.
PageLoad ==
  /\ navPending
  /\ Len(pages) < MaxPages
  /\ navPending' = FALSE
  /\ ignoreDeepLinks' = SentinelPresent(cookie)
  /\ cookie' = CookieAfterLoad(cookie)
  /\ deepLinks' = DeepLinksAtLoad(SentinelPresent(cookie), argv)
  /\ isMaximized' = FALSE
  /\ extensionHandler' = Undefined
  /\ listeners' = InitialListeners
  /\ closures' = <<>>
  /\ calls' = <<>>
  /\ ops' = 0
  /\ lastNotif' = "none"
  /\ homeReqs' = 0
  /\ constructed' = 0
  /\ homeFailed' = FALSE
  /\ resetCalled' = FALSE
  /\ pages' = Append(pages,
                [cause |-> IF resetCalled THEN "reset" ELSE "reload",
                 links |-> DeepLinksAtLoad(SentinelPresent(cookie), argv)])
  /\ hostReqs' = 0
  /\ invokeFailures' = 0
  /\ oneWayFailures' = 0
  /\ overlapped' = FALSE
  /\ netCall' = [netCall EXCEPT !.output = Undefined]
  /\ sockets' = SocketsAtStart
  /\ exposed' = ExposedByMain
  /\ domLoaded' = FALSE
  /\ mounted' = FALSE
  /\ renders' = 0
  /\ propsDeepLinks' = Undefined
  /\ playerPresence' = "NOT_PRESENT"
  /\ seek' = Undefined
  /\ selectSourceId' = 1
  /\ selectEventId' = 1
  /\ topNavSetting' = Undefined
  /\ desktopApp' = FALSE
  /\ unappliedSourceArgs' = Undefined
  /\ unappliedTime' = Undefined
  /\ initialEnableNewTopNav' = TRUE
  /\ dataSource' = ClosedDialog
  /\ selectSourceCalls' = <<>>
  /\ selectEventCalls' = <<>>
  /\ seekCalls' = <<>>
  /\ mountedWith' = Undefined
  /\ UNCHANGED <<argv, hostInbox>>

\* --------------------------------------------------------------- Event Relay

\* Lines 118-123 and 207-220: register, hand back the detach closure.
Attach(eventName, handler) ==
  /\ ops < MaxOps
  /\ ops' = ops + 1
  /\ listeners' = [listeners EXCEPT ![eventName] = on(@, handler)]
  /\ closures' = Append(closures,
                   [eventName |-> eventName, handler |-> handler, invoked |-> 0])
  /\ UNCHANGED <<workspaceVars, hostReqs, invokeFailures, oneWayFailures, overlapped,
                 netCall, sockets, exposed, domLoaded,
                 argv, cookie, navPending, hostInbox, ignoreDeepLinks,
                 deepLinks, isMaximized, extensionHandler, calls, lastNotif,
                 homeReqs, constructed, homeFailed, resetCalled, pages>>

desktopAddIpcEventListener ==
  \E e \in AttachWindowEvents, h \in Handlers : Attach(e, h)

menuAddIpcEventListener ==
  \E e \in AttachMenuEvents, h \in Handlers : Attach(e, h)

\* Lines 120-122 and 216-218: the closure body, ipcRenderer.off(eventName, handler).
Detach(i) ==
  /\ closures[i].invoked < MaxInvoke
  /\ listeners' = [listeners EXCEPT
                     ![closures[i].eventName] = off(@, closures[i].handler)]
  /\ closures' = [closures EXCEPT ![i].invoked = @ + 1]
  /\ UNCHANGED <<workspaceVars, hostReqs, invokeFailures, oneWayFailures, overlapped,
                 netCall, sockets, exposed, domLoaded,
                 argv, cookie, navPending, hostInbox, ignoreDeepLinks,
                 deepLinks, isMaximized, extensionHandler, calls, ops,
                 lastNotif, homeReqs, constructed, homeFailed, resetCalled,
                 pages>>

InvokeDetach == \E i \in 1..Len(closures) : Detach(i)

\* The host pushes an event: ipcRenderer runs the channel's listeners.
HostNotify(e) ==
  /\ isMaximized' = MaximizedAfterEmit(listeners[e], isMaximized)
  /\ lastNotif' = IF e \in {"maximize", "unmaximize"} THEN e ELSE lastNotif
  /\ UNCHANGED <<workspaceVars, hostReqs, invokeFailures, oneWayFailures, overlapped,
                 netCall, sockets, exposed, domLoaded,
                 argv, cookie, navPending, hostInbox, ignoreDeepLinks,
                 deepLinks, extensionHandler, listeners, closures, calls, ops,
                 homeReqs, constructed, homeFailed, resetCalled, pages>>

HostEvent == \E e \in Events : HostNotify(e)

\* ------------------------------------------------------ extension operations

\* The promise of an operation has been resolved or rejected.
Settled(call) == call.pc \in {"resolved", "rejected"}

\* Faulty variant: once getHomePath has failed, every later operation is
\* rejected without asking again.
ExtensionOperation_sticky(op) ==
  /\ ops < MaxOps
  /\ ops' = ops + 1
  /\ overlapped' = (overlapped \/ \E c \in 1..Len(calls) : ~Settled(calls[c]))
  /\ hostReqs' = IF NeedsHomePath(extensionHandler) /\ ~homeFailed
                   THEN hostReqs + 1 ELSE hostReqs
  /\ IF homeFailed
       THEN /\ calls' = Append(calls, [op |-> op, pc |-> "rejected",
                                       firstUse |-> TRUE,
                                       handler |-> Undefined])
            /\ homeReqs' = homeReqs
     ELSE IF NeedsHomePath(extensionHandler)
       THEN /\ calls' = Append(calls, [op |-> op, pc |-> "awaitHome",
                                       firstUse |-> TRUE,
                                       handler |-> Undefined])
            /\ homeReqs' = homeReqs + 1
       ELSE /\ calls' = Append(calls, [op |-> op, pc |-> "awaitOp",
                                       firstUse |-> FALSE,
                                       handler |-> extensionHandler])
            /\ homeReqs' = homeReqs
  /\ UNCHANGED <<workspaceVars, invokeFailures, oneWayFailures, netCall, sockets, exposed, domLoaded,
                 argv, cookie, navPending, hostInbox, ignoreDeepLinks,
                 deepLinks, isMaximized, extensionHandler, listeners, closures,
                 lastNotif, constructed, homeFailed, resetCalled, pages>>

\* Lines 158-173 down to the first suspension: getExtensionHandler() runs its
\* presence check (line 109) and either sends the getHomePath invoke or
\* returns the cached handler, on which the operation is then started.
ExtensionOperation(op) ==
  /\ ops < MaxOps
  /\ ops' = ops + 1
  /\ overlapped' = (overlapped \/ \E c \in 1..Len(calls) : ~Settled(calls[c]))
  /\ hostReqs' = IF NeedsHomePath(extensionHandler)
                   THEN hostReqs + 1 ELSE hostReqs
  /\ IF NeedsHomePath(extensionHandler)
       THEN /\ calls' = Append(calls, [op |-> op, pc |-> "awaitHome",
                                       firstUse |-> TRUE,
                                       handler |-> Undefined])
            /\ homeReqs' = homeReqs + 1
       ELSE /\ calls' = Append(calls, [op |-> op, pc |-> "awaitOp",
                                       firstUse |-> FALSE,
                                       handler |-> extensionHandler])
            /\ homeReqs' = homeReqs
  /\ UNCHANGED <<workspaceVars, invokeFailures, oneWayFailures, netCall, sockets, exposed, domLoaded,
                 argv, cookie, navPending, hostInbox, ignoreDeepLinks,
                 deepLinks, isMaximized, extensionHandler, listeners, closures,
                 lastNotif, constructed, homeFailed, resetCalled, pages>>

getExtensions == ExtensionOperation("list")
loadExtension == ExtensionOperation("load")
installExtension == ExtensionOperation("install")
uninstallExtension == ExtensionOperation("uninstall")

\* The host answers getHomePath: lines 110-114 run, then the operation is
\* started on the handler getExtensionHandler returned.
HomePathResolved(c) ==
  /\ calls[c].pc = "awaitHome"
  /\ extensionHandler' =
       CachedAfterHomePath(extensionHandler, TRUE, constructed + 1)
  /\ constructed' = constructed + 1
  /\ calls' = [calls EXCEPT ![c].pc = "awaitOp",
                            ![c].handler = extensionHandler']
  /\ UNCHANGED <<workspaceVars, hostReqs, invokeFailures, oneWayFailures, overlapped,
                 netCall, sockets, exposed, domLoaded,
                 argv, cookie, navPending, hostInbox, ignoreDeepLinks,
                 deepLinks, isMaximized, listeners, closures, ops, lastNotif,
                 homeReqs, homeFailed, resetCalled, pages>>

\* Faulty variant: a failed getHomePath is asked for once more.
HomePathRejected_retries(c) ==
  /\ calls[c].pc = "awaitHome"
  /\ extensionHandler' =
       CachedAfterHomePath(extensionHandler, FALSE, constructed + 1)
  /\ homeFailed' = TRUE
  /\ invokeFailures' = invokeFailures + 1
  /\ hostReqs' = hostReqs + 1
  /\ calls' = [calls EXCEPT ![c].pc = "rejected"]
  /\ UNCHANGED <<workspaceVars, oneWayFailures, overlapped, netCall, sockets, exposed, domLoaded,
                 argv, cookie, navPending, hostInbox, ignoreDeepLinks,
                 deepLinks, isMaximized, listeners, closures, ops, lastNotif,
                 homeReqs, constructed, resetCalled, pages>>

\* The getHomePath round trip fails: the await at line 110 throws, so does
\* getExtensionHandler, and the operation's promise is rejected.
HomePathRejected(c) ==
  /\ calls[c].pc = "awaitHome"
  /\ extensionHandler' =
       CachedAfterHomePath(extensionHandler, FALSE, constructed + 1)
  /\ homeFailed' = TRUE
  /\ invokeFailures' = invokeFailures + 1
  /\ calls' = [calls EXCEPT ![c].pc = "rejected"]
  /\ UNCHANGED <<workspaceVars, hostReqs, oneWayFailures, overlapped, netCall, sockets, exposed, domLoaded,
                 argv, cookie, navPending, hostInbox, ignoreDeepLinks,
                 deepLinks, isMaximized, listeners, closures, ops, lastNotif,
                 homeReqs, constructed, resetCalled, pages>>

\* handler.list/load/install/uninstall settles: the operation's promise does.
HandlerSettled(c, ok) ==
  /\ calls[c].pc = "awaitOp"
  /\ calls' = [calls EXCEPT ![c].pc = IF ok THEN "resolved" ELSE "rejected"]
  /\ UNCHANGED <<workspaceVars, hostReqs, invokeFailures, oneWayFailures, overlapped,
                 netCall, sockets, exposed, domLoaded,
                 argv, cookie, navPending, hostInbox, ignoreDeepLinks,
                 deepLinks, isMaximized, extensionHandler, listeners, closures,
                 ops, lastNotif, homeReqs, constructed, homeFailed,
                 resetCalled, pages>>

HomePathReply ==
  \E c \in 1..Len(calls) : HomePathResolved(c) \/ HomePathRejected(c)

HandlerReply ==
  \E c \in 1..Len(calls), ok \in BOOLEAN : HandlerSettled(c, ok)

\* ------------------------------------------------- invoke based operations

\* Lines 124-135 and 149-156 down to the await: ipcRenderer.invoke(channel),
\* the operation's promise is pending.
InvokeOperation(op) ==
  /\ ops < MaxOps
  /\ ops' = ops + 1
  /\ hostReqs' = hostReqs + 1
  /\ calls' = Append(calls, [op |-> op, pc |-> "awaitInvoke",
                             firstUse |-> FALSE, handler |-> Undefined])
  /\ UNCHANGED <<workspaceVars, argv, cookie, navPending, hostInbox, ignoreDeepLinks,
                 deepLinks, isMaximized, extensionHandler, listeners,
                 closures, lastNotif, homeReqs, constructed, homeFailed,
                 resetCalled, pages, invokeFailures, oneWayFailures,
                 overlapped, netCall, sockets, exposed, domLoaded>>

setRepresentedFilename == InvokeOperation("setRepresentedFilename")
updateNativeColorScheme == InvokeOperation("updateNativeColorScheme")
updateLanguage == InvokeOperation("updateLanguage")
getCLIFlags == InvokeOperation("getCLIFlags")
fetchLayouts == InvokeOperation("fetchLayouts")

\* What the operation does once its invoke resolved: fetchLayouts goes on to
\* load the layouts of the directory (lines 150-155), the others are done.
AfterInvoke(op) == IF op = "fetchLayouts" THEN "awaitLayouts" ELSE "resolved"

\* The host answers the invoke.
InvokeResolved(c) ==
  /\ calls[c].pc = "awaitInvoke"
  /\ calls' = [calls EXCEPT ![c].pc = AfterInvoke(calls[c].op)]
  /\ UNCHANGED <<workspaceVars, argv, cookie, navPending, hostInbox, ignoreDeepLinks,
                 deepLinks, isMaximized, extensionHandler, listeners,
                 closures, ops, lastNotif, homeReqs, constructed,
                 homeFailed, resetCalled, pages, hostReqs, invokeFailures,
                 oneWayFailures, overlapped, netCall, sockets, exposed,
                 domLoaded>>

\* Faulty variant: the failure is swallowed and the operation carries on.
InvokeRejected_swallows(c) ==
  /\ calls[c].pc = "awaitInvoke"
  /\ calls' = [calls EXCEPT ![c].pc = AfterInvoke(calls[c].op)]
  /\ invokeFailures' = invokeFailures + 1
  /\ UNCHANGED <<workspaceVars, argv, cookie, navPending, hostInbox, ignoreDeepLinks,
                 deepLinks, isMaximized, extensionHandler, listeners,
                 closures, ops, lastNotif, homeReqs, constructed,
                 homeFailed, resetCalled, pages, hostReqs, oneWayFailures,
                 overlapped, netCall, sockets, exposed, domLoaded>>

\* Faulty variant: the failure handling throws the cached handler away.
InvokeRejected_resetsCache(c) ==
  /\ calls[c].pc = "awaitInvoke"
  /\ calls' = [calls EXCEPT ![c].pc = "rejected"]
  /\ invokeFailures' = invokeFailures + 1
  /\ extensionHandler' = Undefined
  /\ UNCHANGED <<workspaceVars, argv, cookie, navPending, hostInbox, ignoreDeepLinks,
                 deepLinks, isMaximized, listeners,
                 closures, ops, lastNotif, homeReqs, constructed,
                 homeFailed, resetCalled, pages, hostReqs, oneWayFailures,
                 overlapped, netCall, sockets, exposed, domLoaded>>

\* The round trip fails: the await throws and the promise is rejected.
InvokeRejected(c) ==
  /\ calls[c].pc = "awaitInvoke"
  /\ calls' = [calls EXCEPT ![c].pc = "rejected"]
  /\ invokeFailures' = invokeFailures + 1
  /\ UNCHANGED <<workspaceVars, argv, cookie, navPending, hostInbox, ignoreDeepLinks,
                 deepLinks, isMaximized, extensionHandler, listeners,
                 closures, ops, lastNotif, homeReqs, constructed,
                 homeFailed, resetCalled, pages, hostReqs, oneWayFailures,
                 overlapped, netCall, sockets, exposed, domLoaded>>

\* Line 155: the layout loader settles, and with it fetchLayouts.
LayoutsSettled(c, ok) ==
  /\ calls[c].pc = "awaitLayouts"
  /\ calls' = [calls EXCEPT ![c].pc = IF ok THEN "resolved" ELSE "rejected"]
  /\ UNCHANGED <<workspaceVars, argv, cookie, navPending, hostInbox, ignoreDeepLinks,
                 deepLinks, isMaximized, extensionHandler, listeners,
                 closures, ops, lastNotif, homeReqs, constructed,
                 homeFailed, resetCalled, pages, hostReqs, invokeFailures,
                 oneWayFailures, overlapped, netCall, sockets, exposed,
                 domLoaded>>

InvokeReply ==
  \E c \in 1..Len(calls) : InvokeResolved(c) \/ InvokeRejected(c)

LayoutsReply ==
  \E c \in 1..Len(calls), ok \in BOOLEAN : LayoutsSettled(c, ok)

\* ------------------------------------------------------ deep links, window

\* Faulty variant: the captured list is emptied in place.
resetDeepLinks_clearsLinks ==
  /\ ops < MaxOps
  /\ ops' = ops + 1
  /\ cookie' = CookieAfterReset(cookie)
  /\ navPending' = TRUE
  /\ resetCalled' = TRUE
  /\ deepLinks' = <<>>
  /\ UNCHANGED <<workspaceVars, hostReqs, invokeFailures, oneWayFailures, overlapped,
                 netCall, sockets, exposed, domLoaded,
                 argv, hostInbox, ignoreDeepLinks, isMaximized,
                 extensionHandler, listeners, closures, calls, lastNotif,
                 homeReqs, constructed, homeFailed, pages>>

\* Lines 139-147: set the sentinel, then window.location.reload().
resetDeepLinks ==
  /\ ops < MaxOps
  /\ ops' = ops + 1
  /\ cookie' = CookieAfterReset(cookie)
  /\ navPending' = TRUE
  /\ resetCalled' = TRUE
  /\ UNCHANGED <<workspaceVars, hostReqs, invokeFailures, oneWayFailures, overlapped,
                 netCall, sockets, exposed, domLoaded,
                 argv, hostInbox, ignoreDeepLinks, deepLinks, isMaximized,
                 extensionHandler, listeners, closures, calls, lastNotif,
                 homeReqs, constructed, homeFailed, pages>>

\* Faulty variant: the command updates the cached flag itself.
Send_optimistic(channel) ==
  /\ ops < MaxOps
  /\ Len(hostInbox) < MaxInbox
  /\ ops' = ops + 1
  /\ hostInbox' = Append(hostInbox, channel)
  /\ hostReqs' = hostReqs + 1
  /\ isMaximized' = IF channel = "maximizeWindow" THEN TRUE
                    ELSE IF channel = "unmaximizeWindow" THEN FALSE
                    ELSE isMaximized
  /\ UNCHANGED <<workspaceVars, invokeFailures, oneWayFailures, overlapped, netCall, sockets, exposed, domLoaded,
                 argv, cookie, navPending, ignoreDeepLinks, deepLinks,
                 extensionHandler, listeners, closures, calls,
                 lastNotif, homeReqs, constructed, homeFailed, resetCalled,
                 pages>>

\* Lines 174-176 and 180-194: ipcRenderer.send(channel).
Send(channel) ==
  /\ ops < MaxOps
  /\ Len(hostInbox) < MaxInbox
  /\ ops' = ops + 1
  /\ hostInbox' = Append(hostInbox, channel)
  /\ hostReqs' = hostReqs + 1
  /\ UNCHANGED <<workspaceVars, invokeFailures, oneWayFailures, overlapped, netCall, sockets, exposed, domLoaded,
                 argv, cookie, navPending, ignoreDeepLinks, deepLinks,
                 isMaximized, extensionHandler, listeners, closures, calls,
                 lastNotif, homeReqs, constructed, homeFailed, resetCalled,
                 pages>>

handleTitleBarDoubleClick == Send("titleBarDoubleClicked")
minimizeWindow == Send("minimizeWindow")
maximizeWindow == Send("maximizeWindow")
unmaximizeWindow == Send("unmaximizeWindow")
closeWindow == Send("closeWindow")
reloadWindow == Send("reloadMainWindow")

\* The host takes the next one-way message; "reloadMainWindow" makes it
\* reload the window, the other commands act on the native window only.
HostReceive ==
  /\ hostInbox # <<>>
  /\ hostInbox' = Tail(hostInbox)
  /\ navPending' = (navPending \/ Head(hostInbox) = "reloadMainWindow")
  /\ UNCHANGED <<workspaceVars, hostReqs, invokeFailures, oneWayFailures, overlapped,
                 netCall, sockets, exposed, domLoaded,
                 argv, cookie, ignoreDeepLinks, deepLinks, isMaximized,
                 extensionHandler, listeners, closures, calls, ops, lastNotif,
                 homeReqs, constructed, homeFailed, resetCalled, pages>>

\* The host fails to act on the next one-way message; nothing goes back to
\* the page, which has no promise for it.
HostReceiveFails ==
  /\ hostInbox # <<>>
  /\ hostInbox' = Tail(hostInbox)
  /\ oneWayFailures' = oneWayFailures + 1
  /\ UNCHANGED <<workspaceVars, argv, cookie, navPending, ignoreDeepLinks, deepLinks,
                 isMaximized, extensionHandler, listeners, closures, calls,
                 ops, lastNotif, homeReqs, constructed, homeFailed,
                 resetCalled, pages, hostReqs, invokeFailures, overlapped,
                 netCall, sockets, exposed, domLoaded>>

\* ------------------------------------------------------- environment queries

\* Lines 81-94: ctxbridge.getNetworkInterfaces().
getNetworkInterfaces ==
  /\ netCall' = [netCall EXCEPT !.output = Some(NetworkInterfacesOf(netCall.ifaces))]
  /\ UNCHANGED <<workspaceVars, argv, cookie, navPending, hostInbox, ignoreDeepLinks,
                 deepLinks, isMaximized, extensionHandler, listeners,
                 closures, calls, ops, lastNotif, homeReqs, constructed,
                 homeFailed, resetCalled, pages, hostReqs, invokeFailures,
                 oneWayFailures, overlapped, sockets, exposed, domLoaded>>

\* ------------------------------------------------------------------ startup

\* Faulty variant: a failed creation is started again.
SocketsSettled_retries(ok) ==
  /\ sockets.status = "pending"
  /\ sockets' = IF ok THEN [sockets EXCEPT !.status = "created"]
                ELSE [sockets EXCEPT !.creates = @ + 1, !.logged = @ + 1,
                                     !.status = IF sockets.creates < 2
                                                  THEN "pending" ELSE "failed"]
  /\ UNCHANGED <<workspaceVars, argv, cookie, navPending, hostInbox, ignoreDeepLinks,
                 deepLinks, isMaximized, extensionHandler, listeners,
                 closures, calls, ops, lastNotif, homeReqs, constructed,
                 homeFailed, resetCalled, pages, hostReqs, invokeFailures,
                 oneWayFailures, overlapped, netCall, exposed, domLoaded>>

\* Lines 50-52: the promise of PreloaderSockets.Create() settles, after
\* main() has returned; the catch callback logs the rejection.
SocketsSettled(ok) ==
  /\ sockets.status = "pending"
  /\ sockets' = IF ok THEN [sockets EXCEPT !.status = "created"]
                ELSE [sockets EXCEPT !.status = "failed", !.logged = @ + 1]
  /\ UNCHANGED <<workspaceVars, argv, cookie, navPending, hostInbox, ignoreDeepLinks,
                 deepLinks, isMaximized, extensionHandler, listeners,
                 closures, calls, ops, lastNotif, homeReqs, constructed,
                 homeFailed, resetCalled, pages, hostReqs, invokeFailures,
                 oneWayFailures, overlapped, netCall, exposed, domLoaded>>

SocketsReply == \E ok \in BOOLEAN : SocketsSettled(ok)

\* Lines 54-70: the once-listener of DOMContentLoaded adds the file input
\* and tells the host, without waiting for the answer.
DOMContentLoaded ==
  /\ ~domLoaded
  /\ domLoaded' = TRUE
  /\ UNCHANGED <<workspaceVars, argv, cookie, navPending, hostInbox, ignoreDeepLinks,
                 deepLinks, isMaximized, extensionHandler, listeners,
                 closures, calls, ops, lastNotif, homeReqs, constructed,
                 homeFailed, resetCalled, pages, hostReqs, invokeFailures,
                 oneWayFailures, overlapped, netCall, sockets, exposed>>

\* ---------------------------------------------------------------- Workspace

\* useAppConfigurationValue with a default: [value = dflt].
Defaulted(setting, dflt) == IF setting = Undefined THEN dflt ELSE The(setting)

\* Lines 485-488: props.deepLinks ?? [], then the first link when truthy.
targetUrlState(links) ==
  LET dl == IF links = Undefined THEN <<>> ELSE The(links) IN
  IF dl # <<>> /\ dl[1] # "" THEN parseAppURLState(dl[1]) ELSE Undefined

\* Lines 490-492 and 513-515: the initial values of the two states.
InitialSourceArgs(target) ==
  IF target = Undefined THEN Undefined
  ELSE Some([ds |-> The(target).ds, dsParams |-> The(target).dsParams])

InitialTime(target) ==
  IF target = Undefined THEN Undefined ELSE Some([time |-> The(target).time])

\* Lines 625-637: isPlayerPresent and the initial dataSource dialog.
InitialDialog(presence, showOpenDialogOnStartup) ==
  IF presence # "NOT_PRESENT" \/ ~Defaulted(showOpenDialogOnStartup, TRUE)
    THEN ClosedDialog
    ELSE OpenDialog("start")

\* Faulty variant: the applied arguments are kept.
SourceArgsAfterApply_keeps(args) == args

\* Line 509: setUnappliedSourceArgs({ ds: undefined, dsParams: undefined }).
SourceArgsAfterApply(args) == Some([ds |-> Undefined, dsParams |-> Undefined])

\* Faulty variant: the time is kept after the seek.
TimeAfterSeek_keeps(time) == time

\* Line 529: setUnappliedTime({ time: undefined }).
TimeAfterSeek(time) == Some([time |-> Undefined])

\* Lines 496-510: the effect that loads the data source of the link, run
\* with the state the render saw.
SourceEffect(args) ==
  IF args # Undefined /\ The(args).ds # Undefined
    THEN /\ selectSourceCalls' =
              Append(selectSourceCalls,
                     [ds |-> The(The(args).ds), params |-> The(args).dsParams])
         /\ selectEventCalls' =
              Append(selectEventCalls,
                     IF The(args).dsParams = Undefined THEN Undefined
                     ELSE Some(The(The(args).dsParams).eventId))
         /\ unappliedSourceArgs' = SourceArgsAfterApply(args)
    ELSE /\ unappliedSourceArgs' = args
         /\ UNCHANGED <<selectSourceCalls, selectEventCalls>>

\* Lines 518-525: the conditions under which the seek effect goes on.
SeekReady(time, presence, sk) ==
  /\ time # Undefined
  /\ The(time).time # Undefined
  /\ sk # Undefined
  /\ presence = "PRESENT"

\* Lines 517-530: the effect that seeks to the time of the link.
SeekEffect(time, presence, sk) ==
  IF SeekReady(time, presence, sk)
    THEN /\ seekCalls' = Append(seekCalls, The(The(time).time))
         /\ unappliedTime' = TimeAfterSeek(time)
    ELSE /\ unappliedTime' = time
         /\ UNCHANGED seekCalls

\* Faulty variant: closes for every presence but NOT_PRESENT.
ClosesDialog_whenPresent(presence) == presence # "NOT_PRESENT"

\* Lines 219-222: the condition of the layout effect.
ClosesDialog(presence) == presence \in {"PRESENT", "INITIALIZING"}

\* Lines 218-225: the layout effect, run with the presence of the render.
LayoutEffect(presence, dialog) ==
  dataSource' = IF ClosesDialog(presence) THEN ClosedDialog ELSE dialog

\* Lines 208-210: [currentEnableNewTopNav = true].
currentEnableNewTopNav == Defaulted(topNavSetting, TRUE)

\* Faulty variant: follows the setting on the desktop too.
enableNewTopNav_followsSetting == currentEnableNewTopNav

\* Line 213.
enableNewTopNav ==
  IF desktopApp THEN initialEnableNewTopNav ELSE currentEnableNewTopNav

\* Workspace and WorkspaceContent mount: the initial states are taken from
\* the first render's values and every effect runs once.
Mount(links, presence, sk, setting, desktop, showOpenDialogOnStartup) ==
  /\ ~mounted
  /\ mounted' = TRUE
  /\ renders' = 0
  /\ propsDeepLinks' = links
  /\ playerPresence' = presence
  /\ seek' = sk
  /\ topNavSetting' = setting
  /\ desktopApp' = desktop
  /\ initialEnableNewTopNav' = Defaulted(setting, TRUE)
  /\ mountedWith' = Some([showOpenDialogOnStartup |-> showOpenDialogOnStartup,
                          playerPresence |-> presence])
  /\ LayoutEffect(presence, InitialDialog(presence, showOpenDialogOnStartup))
  /\ SourceEffect(InitialSourceArgs(targetUrlState(links)))
  /\ SeekEffect(InitialTime(targetUrlState(links)), presence, sk)
  /\ UNCHANGED <<preloadVars, selectSourceId, selectEventId>>

\* Mounts that differ in the deep links, the player and its seek function.
MountWithLinks ==
  \E links \in DeepLinksProps, presence \in PlayerPresence, sk \in SeekFunctions :
    Mount(links, presence, sk, Undefined, FALSE, Undefined)

\* Mounts that differ in the player, the settings and the platform.
MountWithSettings ==
  \E presence \in PlayerPresence, setting \in BooleanSettings,
     desktop \in BOOLEAN, showOpenDialogOnStartup \in BooleanSettings :
    Mount(Undefined, presence, Undefined, setting, desktop,
          showOpenDialogOnStartup)

\* The component is unmounted: its states are gone.
Unmount ==
  /\ mounted
  /\ mounted' = FALSE
  /\ renders' = 0
  /\ propsDeepLinks' = Undefined
  /\ playerPresence' = "NOT_PRESENT"
  /\ seek' = Undefined
  /\ selectSourceId' = 1
  /\ selectEventId' = 1
  /\ topNavSetting' = Undefined
  /\ desktopApp' = FALSE
  /\ unappliedSourceArgs' = Undefined
  /\ unappliedTime' = Undefined
  /\ initialEnableNewTopNav' = TRUE
  /\ dataSource' = ClosedDialog
  /\ selectSourceCalls' = <<>>
  /\ selectEventCalls' = <<>>
  /\ seekCalls' = <<>>
  /\ mountedWith' = Undefined
  /\ UNCHANGED preloadVars

\* playerState.presence changes: the layout effect and the seek effect have
\* it among their dependencies and run again.
PresenceChanged(presence) ==
  /\ mounted
  /\ renders < MaxRenders
  /\ presence # playerPresence
  /\ renders' = renders + 1
  /\ playerPresence' = presence
  /\ LayoutEffect(presence, dataSource)
  /\ SeekEffect(unappliedTime, presence, seek)
  /\ UNCHANGED <<preloadVars, mounted, propsDeepLinks, seek, selectSourceId,
                 selectEventId, topNavSetting, desktopApp,
                 unappliedSourceArgs, initialEnableNewTopNav,
                 selectSourceCalls, selectEventCalls, mountedWith>>

PlayerStateChanged == \E presence \in PlayerPresence : PresenceChanged(presence)

\* ctx.seekPlayback changes: the seek effect runs again.
SeekChanged(sk) ==
  /\ mounted
  /\ renders < MaxRenders
  /\ sk # seek
  /\ renders' = renders + 1
  /\ seek' = sk
  /\ SeekEffect(unappliedTime, playerPresence, sk)
  /\ UNCHANGED <<preloadVars, mounted, propsDeepLinks, playerPresence,
                 selectSourceId, selectEventId, topNavSetting, desktopApp,
                 unappliedSourceArgs, initialEnableNewTopNav, dataSource,
                 selectSourceCalls, selectEventCalls, mountedWith>>

SeekPlaybackChanged == \E sk \in SeekFunctions : SeekChanged(sk)

\* usePlayerSelection() hands out a new selectSource: the source effect runs
\* again.
SelectSourceChanged ==
  /\ mounted
  /\ renders < MaxRenders
  /\ renders' = renders + 1
  /\ selectSourceId' = 3 - selectSourceId
  /\ SourceEffect(unappliedSourceArgs)
  /\ UNCHANGED <<preloadVars, mounted, propsDeepLinks, playerPresence, seek,
                 selectEventId, topNavSetting, desktopApp, unappliedTime,
                 initialEnableNewTopNav, dataSource, seekCalls, mountedWith>>

\* The events store hands out a new selectEvent: the source effect runs again.
SelectEventChanged ==
  /\ mounted
  /\ renders < MaxRenders
  /\ renders' = renders + 1
  /\ selectEventId' = 3 - selectEventId
  /\ SourceEffect(unappliedSourceArgs)
  /\ UNCHANGED <<preloadVars, mounted, propsDeepLinks, playerPresence, seek,
                 selectSourceId, topNavSetting, desktopApp, unappliedTime,
                 initialEnableNewTopNav, dataSource, seekCalls, mountedWith>>

\* props.deepLinks changes: targetUrlState is computed again (line 488), no
\* effect depends on it and the two states keep their values.
DeepLinksPropChanged ==
  /\ mounted
  /\ renders < MaxRenders
  /\ renders' = renders + 1
  /\ \E links \in DeepLinksProps :
       /\ links # propsDeepLinks
       /\ propsDeepLinks' = links
  /\ UNCHANGED <<preloadVars, mounted, playerPresence, seek, selectSourceId,
                 selectEventId, topNavSetting, desktopApp,
                 unappliedSourceArgs, unappliedTime, initialEnableNewTopNav,
                 dataSource, selectSourceCalls, selectEventCalls, seekCalls,
                 mountedWith>>

\* The ENABLE_NEW_TOPNAV setting changes.
TopNavSettingChanged ==
  /\ mounted
  /\ renders < MaxRenders
  /\ renders' = renders + 1
  /\ \E setting \in BooleanSettings :
       /\ setting # topNavSetting
       /\ topNavSetting' = setting
  /\ UNCHANGED <<preloadVars, mounted, propsDeepLinks, playerPresence, seek,
                 selectSourceId, selectEventId, desktopApp,
                 unappliedSourceArgs, unappliedTime, initialEnableNewTopNav,
                 dataSource, selectSourceCalls, selectEventCalls, seekCalls,
                 mountedWith>>

\* Line 475: the keyboard shortcut opens the data source dialog.
OpenConnectionDialog ==
  /\ mounted
  /\ renders < MaxRenders
  /\ renders' = renders + 1
  /\ dataSource' = OpenDialog("connection")
  /\ UNCHANGED <<preloadVars, mounted, propsDeepLinks, playerPresence, seek,
                 selectSourceId, selectEventId, topNavSetting, desktopApp,
                 unappliedSourceArgs, unappliedTime, initialEnableNewTopNav,
                 selectSourceCalls, selectEventCalls, seekCalls, mountedWith>>

\* ------------------------------------------------------------ specification

\* The whole preload: every bridge operation and every host step.
Next ==
  \/ PageLoad
  \/ MountWithLinks
  \/ MountWithSettings
  \/ Unmount
  \/ PlayerStateChanged
  \/ SeekPlaybackChanged
  \/ SelectSourceChanged
  \/ SelectEventChanged
  \/ DeepLinksPropChanged
  \/ TopNavSettingChanged
  \/ OpenConnectionDialog
  \/ getNetworkInterfaces
  \/ SocketsReply
  \/ DOMContentLoaded
  \/ desktopAddIpcEventListener
  \/ menuAddIpcEventListener
  \/ InvokeDetach
  \/ HostEvent
  \/ getExtensions
  \/ loadExtension
  \/ installExtension
  \/ uninstallExtension
  \/ HomePathReply
  \/ HandlerReply
  \/ resetDeepLinks
  \/ handleTitleBarDoubleClick
  \/ minimizeWindow
  \/ maximizeWindow
  \/ unmaximizeWindow
  \/ closeWindow
  \/ reloadWindow
  \/ HostReceive
  \/ HostReceiveFails
  \/ setRepresentedFilename
  \/ updateNativeColorScheme
  \/ updateLanguage
  \/ getCLIFlags
  \/ fetchLayouts
  \/ InvokeReply
  \/ LayoutsReply

Spec == Init /\ [][Next]_vars

\* A launch without deep links, for the parts that never read them.
PlainLaunch == Launch(<<ExeArg>>)

\* The lazily constructed extension handler within one page instance.
NextExtensions ==
  \/ getExtensions
  \/ loadExtension
  \/ installExtension
  \/ uninstallExtension
  \/ HomePathReply
  \/ HandlerReply

SpecExtensions == PlainLaunch /\ [][NextExtensions]_vars

\* The event relay and the cached maximized flag within one page instance,
\* with the window commands that make the host change the window.
NextRelay ==
  \/ desktopAddIpcEventListener
  \/ menuAddIpcEventListener
  \/ InvokeDetach
  \/ HostEvent
  \/ handleTitleBarDoubleClick
  \/ minimizeWindow
  \/ maximizeWindow
  \/ unmaximizeWindow
  \/ HostReceive

SpecRelay == PlainLaunch /\ [][NextRelay]_vars

\* The deep link intake and reset protocol across the page instances of one
\* launch, with host events and a window command in between.
NextDeepLinks ==
  \/ PageLoad
  \/ resetDeepLinks
  \/ reloadWindow
  \/ HostReceive
  \/ HostEvent
  \/ maximizeWindow

SpecDeepLinks == Init /\ [][NextDeepLinks]_vars

\* A launch with deep links in the arguments.
LinkedLaunch ==
  Launch(<<ExeArg, [name |-> "deepLinks", value |-> Encoded(LaunchLinks)]>>)

\* Every desktopBridge and menuBridge operation and every host step within
\* one page instance.
NextBridge ==
  \/ desktopAddIpcEventListener
  \/ menuAddIpcEventListener
  \/ InvokeDetach
  \/ HostEvent
  \/ getExtensions
  \/ loadExtension
  \/ installExtension
  \/ uninstallExtension
  \/ HomePathReply
  \/ HandlerReply
  \/ setRepresentedFilename
  \/ updateNativeColorScheme
  \/ updateLanguage
  \/ getCLIFlags
  \/ fetchLayouts
  \/ InvokeReply
  \/ LayoutsReply
  \/ resetDeepLinks
  \/ handleTitleBarDoubleClick
  \/ minimizeWindow
  \/ maximizeWindow
  \/ unmaximizeWindow
  \/ closeWindow
  \/ reloadWindow
  \/ HostReceive
  \/ HostReceiveFails

SpecBridge == LinkedLaunch /\ [][NextBridge /\ ops' <= MaxBridgeOps]_vars

\* getNetworkInterfaces() on every listing of the bounded sets.
NetworkLaunch == \E ifaces \in IfaceChoices : LaunchOn(<<ExeArg>>, ifaces)

NextNetwork == getNetworkInterfaces

SpecNetwork == NetworkLaunch /\ [][NextNetwork]_vars

\* The start of each page instance: main() has run, the socket channel and
\* the document are still to come; the window may be reloaded.
NextStartup ==
  \/ SocketsReply
  \/ DOMContentLoaded
  \/ getNetworkInterfaces
  \/ reloadWindow
  \/ HostReceive
  \/ PageLoad

SpecStartup == Init /\ [][NextStartup]_vars

\* WorkspaceContent and the deep link it is handed: the data source and the
\* seek, under changes of the player, of the functions and of the links.
NextWorkspaceLinks ==
  \/ MountWithLinks
  \/ Unmount
  \/ PlayerStateChanged
  \/ SeekPlaybackChanged
  \/ SelectSourceChanged
  \/ SelectEventChanged
  \/ DeepLinksPropChanged

SpecWorkspaceLinks == PlainLaunch /\ [][NextWorkspaceLinks]_vars

\* Workspace, its data source dialog and the top navigation setting.
NextWorkspaceShell ==
  \/ MountWithSettings
  \/ Unmount
  \/ PlayerStateChanged
  \/ TopNavSettingChanged
  \/ OpenConnectionDialog

SpecWorkspaceShell == PlainLaunch /\ [][NextWorkspaceShell]_vars

\* ===================================================================
\* Properties
\* ===================================================================

\* The links the host put into the launch arguments: the payload of the first
\* well-formed deepLinks argument, none when there is no such argument.
HostLinks(args) ==
  IF \E i \in 1..Len(args) : args[i].name = "deepLinks" /\ args[i].value.wellFormed
    THEN LaunchLinks
    ELSE <<>>

CallIds == 1..Len(calls)
PageIds == 1..Len(pages)
CurrentPage == pages[Len(pages)]

\* A step that starts a new page instance.
IsPageLoad == Len(pages') = Len(pages) + 1

\* ---- Extension handler (SpecExtensions)

\* C1: all extension operations issued while no handler was cached, and that
\* resolve, were served by one and the same ExtensionsHandler instance.
C1_SameInstance ==
  \A a, b \in CallIds :
    (/\ calls[a].firstUse /\ calls[a].pc = "resolved"
     /\ calls[b].firstUse /\ calls[b].pc = "resolved")
    => calls[a].handler = calls[b].handler

\* C2: as long as every host reply succeeded, one preload instance constructs
\* the handler at most once and sends getHomePath for it at most once.
C2_SingleFlight ==
  ~homeFailed => (constructed <= 1 /\ homeReqs <= 1)

\* C3: when the getHomePath round trip of an operation fails, the operation
\* is rejected and the cached handler is left as it was (absent stays absent);
\* whatever is cached is a handler constructed from a resolved home path.
C3_FailedStep(c) ==
  /\ Len(calls') = Len(calls)
  /\ calls[c].pc = "awaitHome"
  /\ calls'[c].pc # "awaitHome"
  /\ constructed' = constructed

C3_Complete(h, n) ==
  \A x \in h : /\ x.id \in 1..n
               /\ x.dir = HomePath \o <<".lichtblick-suite", "extensions">>

C3_FailureCachesNothing ==
  [][/\ C3_Complete(extensionHandler', constructed')
     /\ \A c \in CallIds :
          C3_FailedStep(c) =>
            /\ calls'[c].pc = "rejected"
            /\ calls'[c].handler = Undefined
            /\ extensionHandler' = extensionHandler]_vars

C3_Witness ==
  /\ extensionHandler = Undefined
  /\ \E c \in CallIds : calls[c].pc = "rejected" /\ calls[c].handler = Undefined

\* ---- Cached maximized flag and event relay (SpecRelay)

\* C4: isMaximized() is false before any maximize/unmaximize notification,
\* true when the last one received was maximize, false when it was unmaximize.
C4_ReflectsLastNotification ==
  isMaximizedResult = (lastNotif = "maximize")

C4_Witness ==
  /\ lastNotif = "maximize"
  /\ isMaximizedResult
  /\ \E i \in 1..Len(closures) :
       closures[i].eventName = "maximize" /\ closures[i].invoked > 0
  /\ hostInbox # <<>>

\* Instances of a listener in a listener array.
Count(ls, x) == Cardinality({i \in 1..Len(ls) : ls[i] = x})

\* Registrations of a handler on a channel whose detach closure has not been
\* invoked.
LiveRegistrations(e, h) ==
  {i \in 1..Len(closures) :
     closures[i].eventName = e /\ closures[i].handler = h
     /\ closures[i].invoked = 0}

\* C5: invoking detach closures removes only the registrations they belong
\* to: on every channel each handler is still registered once for every
\* registration of it that has not been detached.
C5_DetachRemovesOnlyOwnRegistration ==
  \A e \in Events, h \in Handlers :
    Count(listeners[e], h) = Cardinality(LiveRegistrations(e, h))

\* C6: a second or later invocation of a detach closure changes no channel's
\* registrations.
C6_DetachIdempotent ==
  [][\A i \in 1..Len(closures) :
       (/\ Len(closures') = Len(closures)
        /\ closures[i].invoked >= 1
        /\ closures'[i].invoked = closures[i].invoked + 1)
       => listeners' = listeners]_vars

\* ---- Deep links (SpecDeepLinks)

\* C7: a page load without the sentinel yields the links of the launch
\* arguments (none: the empty list); a page load with the sentinel yields the
\* empty list and clears the sentinel.
C7_LoadReadsSentinel ==
  /\ (Len(pages) = 1 => getDeepLinks = HostLinks(argv))
  /\ [][IsPageLoad =>
          /\ ~CookieIncludes(cookie', SentinelName, "true")
          /\ getDeepLinks' =
               IF CookieIncludes(cookie, SentinelName, "true")
                 THEN <<>> ELSE HostLinks(argv)]_vars

C7_Witness ==
  /\ Len(pages) >= 2
  /\ ignoreDeepLinks
  /\ HostLinks(argv) # <<>>
  /\ getDeepLinks = <<>>
  /\ cookie = {}

\* C8: resetDeepLinks() sets the sentinel and requests the reload, and the
\* page instance loaded after it has no deep links.
C8_ResetThenReloadIsEmpty ==
  /\ resetCalled => (CookieIncludes(cookie, SentinelName, "true") /\ navPending)
  /\ CurrentPage.cause = "reset" => getDeepLinks = <<>>

C8_Witness ==
  /\ CurrentPage.cause = "reset"
  /\ HostLinks(argv) # <<>>
  /\ getDeepLinks = <<>>

Deliveries == {k \in PageIds : pages[k].links # <<>>}

C11_DeepLinksFixedInPage ==
  [][~IsPageLoad => getDeepLinks' = getDeepLinks]_vars

C11_Witness ==
  /\ resetCalled
  /\ navPending
  /\ ops = 2
  /\ calls # <<>>
  /\ getDeepLinks = LaunchLinks


\* ---- Sentinel lifecycle (SpecDeepLinks)

\* C12: the sentinel is in the cookie jar exactly from a resetDeepLinks()
\* call to the page load that follows it; that load is pending all the
\* while, it is the one load that ignores the launch links, and no page load
\* leaves the sentinel behind.
C12_SentinelLifecycle ==
  /\ [](/\ CookieIncludes(cookie, SentinelName, "true") <=> resetCalled
        /\ resetCalled => navPending
        /\ ignoreDeepLinks <=> (CurrentPage.cause = "reset"))
  /\ [][/\ (~CookieIncludes(cookie, SentinelName, "true")
            /\ CookieIncludes(cookie', SentinelName, "true"))
           => (resetCalled' /\ ~IsPageLoad)
        /\ IsPageLoad => ~CookieIncludes(cookie', SentinelName, "true")]_vars

C12_Witness ==
  /\ Len(pages) = 3
  /\ pages[2].cause = "reset"
  /\ pages[3].cause = "reload"
  /\ ~ignoreDeepLinks
  /\ cookie = {}
  /\ ~navPending


\* ---- Results of the operations that need the host (SpecBridge)

\* Promises of bridge operations that have been rejected.
RejectedCalls == {c \in CallIds : calls[c].pc = "rejected"}

SharedState == <<isMaximized, deepLinks, listeners, extensionHandler>>

\* C14: a bridge call whose host round trip fails changes no shared state:
\* neither the step that issues a call nor the step in which its round trip
\* fails changes the maximized flag, the deep links, the registered handlers
\* or the cached extension handler, so what later calls read is what they
\* would have read without the failed call.
C14_FailedCallChangesNothing ==
  [][(invokeFailures' # invokeFailures \/ Len(calls') > Len(calls)) =>
       /\ SharedState' = SharedState
       /\ getDeepLinks' = getDeepLinks
       /\ isMaximizedResult' = isMaximizedResult
       /\ NeedsHomePath(extensionHandler') = NeedsHomePath(extensionHandler)]_vars

C14_Witness ==
  /\ Len(calls) = 2
  /\ calls[1].op \in ExtensionOps /\ calls[1].pc = "resolved"
  /\ calls[2].op = "fetchLayouts" /\ calls[2].pc = "rejected"
  /\ invokeFailures = 1
  /\ extensionHandler # Undefined
  /\ isMaximized
  /\ deepLinks = LaunchLinks


\* C15: the cached maximized flag is changed only by the host-pushed
\* maximize and unmaximize notifications: a step that changes the value
\* returned by isMaximized() is the delivery of one of the two, and is no
\* bridge operation (it issues no operation, sends nothing to the host and
\* leaves the listener registrations alone).
C15_OnlyNotificationsChangeFlag ==
  [][isMaximizedResult' # isMaximizedResult =>
       /\ lastNotif' # lastNotif
       /\ lastNotif' \in {"maximize", "unmaximize"}
       /\ isMaximizedResult' = (lastNotif' = "maximize")
       /\ UNCHANGED <<workspaceVars, ops, hostInbox, hostReqs, listeners, closures>>]_vars

C15_Witness ==
  /\ isMaximizedResult
  /\ lastNotif = "maximize"
  /\ hostInbox = <<"unmaximizeWindow">>
  /\ \E i \in 1..Len(closures) :
       closures[i].eventName = "unmaximize" /\ closures[i].invoked > 0


\* C16: no bridge operation is retried: a request goes to the host only in
\* the step that issues an operation, one at most, so the requests sent
\* never outnumber the operations issued; the step in which a round trip
\* fails sends nothing, and a rejected operation takes no further step.
C16_NoAutomaticRetry ==
  /\ [](hostReqs <= ops /\ homeReqs <= hostReqs)
  /\ [][/\ hostReqs' \in {hostReqs, hostReqs + 1}
        /\ hostReqs' # hostReqs => ops' = ops + 1
        /\ invokeFailures' # invokeFailures =>
             (hostReqs' = hostReqs /\ homeReqs' = homeReqs)
        /\ \A c \in CallIds :
             calls[c].pc = "rejected" => calls'[c] = calls[c]]_vars

C16_Witness ==
  /\ Len(calls) = 2
  /\ calls[1].op \in ExtensionOps /\ calls[1].pc = "rejected"
  /\ calls[2].op = "fetchLayouts" /\ calls[2].pc = "rejected"
  /\ invokeFailures = 2
  /\ hostReqs = 2
  /\ homeReqs = 1


\* Steps that invoke a detach closure.
IsDetach ==
  /\ Len(closures') = Len(closures)
  /\ \E i \in 1..Len(closures) : closures'[i].invoked = closures[i].invoked + 1

\* C17: a detach takes effect immediately and locally: from the state the
\* detach call returns in, a handler is registered on a channel at most once
\* per registration of it that has not been detached, so a handler whose
\* registrations have all been detached is run by no later event; and the
\* step that invokes a detach closure sends nothing to the host.
C17_DetachImmediateAndLocal ==
  /\ [](\A e \in Events, h \in Handlers :
          Count(listeners[e], h) <= Cardinality(LiveRegistrations(e, h)))
  /\ [][IsDetach => UNCHANGED <<workspaceVars, hostInbox, hostReqs, ops, calls>>]_vars

C17_Witness ==
  /\ \E i \in 1..Len(closures) :
       /\ closures[i].eventName = "maximize"
       /\ closures[i].handler = "h1"
       /\ closures[i].invoked = 1
  /\ Count(listeners["maximize"], "h1") = 0
  /\ Count(listeners["maximize"], "h2") = 1
  /\ lastNotif = "maximize"
  /\ hostInbox = <<>>
  /\ hostReqs = 0


\* ---- Environment queries (SpecNetwork)

\* Address entries of the k-th listed interface: none when it is undefined.
EntriesOf(ifaces, k) ==
  IF ifaces[k].entries = Undefined THEN <<>> ELSE The(ifaces[k].entries)

\* Address entries of the interfaces listed before the k-th.
RECURSIVE EntriesBefore(_, _)
EntriesBefore(ifaces, k) ==
  IF k <= 1 THEN 0
  ELSE EntriesBefore(ifaces, k - 1) + Len(EntriesOf(ifaces, k - 1))

\* C18: getNetworkInterfaces() returns one record per address entry of each
\* interface, in enumeration order, carrying the interface's name and the
\* entry's address; an interface without address entries (undefined or an
\* empty list) contributes no record; the cidr of a record is the entry's
\* CIDR, and undefined when the entry has none (null or missing).
C18_OneRecordPerAddressEntry ==
  netCall.output # Undefined =>
    LET ifaces == netCall.ifaces
        output == The(netCall.output)
    IN /\ Len(output) = EntriesBefore(ifaces, Len(ifaces) + 1)
       /\ \A k \in 1..Len(ifaces) :
            /\ \A j \in 1..Len(EntriesOf(ifaces, k)) :
                 LET rec == output[EntriesBefore(ifaces, k) + j]
                     info == EntriesOf(ifaces, k)[j]
                 IN /\ rec.name = ifaces[k].name
                    /\ rec.address = info.address
                    /\ rec.cidr = IF info.cidr \in {"null", "absent"}
                                    THEN "undefined" ELSE info.cidr
            /\ EntriesOf(ifaces, k) = <<>> =>
                 \A i \in 1..Len(output) : output[i].name # ifaces[k].name
       /\ \A i \in 1..Len(output) : "cidr" \in DOMAIN output[i]

C18_Witness ==
  /\ netCall.output # Undefined
  /\ Len(netCall.ifaces) = 2
  /\ netCall.ifaces[1].entries = Undefined
  /\ netCall.ifaces[2].entries # Undefined
  /\ Len(EntriesOf(netCall.ifaces, 2)) = 2
  /\ EntriesOf(netCall.ifaces, 2)[1].cidr = "null"
  /\ EntriesOf(netCall.ifaces, 2)[2].cidr = "127.0.0.1/8"
  /\ Len(The(netCall.output)) = 2
  /\ The(netCall.output)[1].cidr = "undefined"


\* ---- Startup (SpecStartup)

\* C19: when creating the socket channel fails the preload only logs it:
\* the creation was called once and is not called again, the failure is
\* logged once, the step in which it fails changes nothing else of the page,
\* and each of the four bridges is published exactly once.
C19_SocketFailureOnlyLogged ==
  /\ [](/\ sockets.creates = 1
        /\ sockets.logged = (IF sockets.status = "failed" THEN 1 ELSE 0)
        /\ Len(exposed) = 4
        /\ \A key \in {"ctxbridge", "menuBridge", "storageBridge",
                       "desktopBridge"} : Count(exposed, key) = 1)
  /\ [][sockets'.logged > sockets.logged =>
          /\ sockets'.status = "failed"
          /\ UNCHANGED <<workspaceVars, argv, cookie, navPending, hostInbox, ignoreDeepLinks,
                         deepLinks, isMaximized, extensionHandler, listeners,
                         closures, calls, ops, pages, netCall, exposed,
                         domLoaded>>]_vars

C19_Witness ==
  /\ sockets.status = "failed"
  /\ sockets.logged = 1
  /\ Len(pages) = 2
  /\ domLoaded
  /\ netCall.output # Undefined
  /\ exposed = ExposedByMain


\* ---- Extension handler, used sequentially (SpecExtensions)

\* C20: while no extension operation was issued before the previous one had
\* settled and no getHomePath round trip failed, the first operation is the
\* only one that sends getHomePath, exactly once, and the handler is
\* constructed once, from its reply; every later operation sends none and
\* runs on that same handler instance.
C20_SequentialUseCachesOnce ==
  (~overlapped /\ ~homeFailed) =>
    /\ \A c \in CallIds : calls[c].firstUse <=> (c = 1)
    /\ homeReqs = (IF calls = <<>> THEN 0 ELSE 1)
    /\ constructed = (IF calls = <<>> \/ calls[1].pc = "awaitHome" THEN 0 ELSE 1)
    /\ \A c \in CallIds :
         calls[c].pc # "awaitHome" =>
           /\ calls[c].handler # Undefined
           /\ calls[c].handler = calls[1].handler
           /\ calls[c].handler = extensionHandler

C20_Witness ==
  /\ ~overlapped
  /\ ~homeFailed
  /\ Len(calls) = 3
  /\ calls[1].pc = "rejected"
  /\ calls[2].pc = "resolved"
  /\ calls[3].pc = "resolved"
  /\ homeReqs = 1
  /\ constructed = 1


\* ---- Extension handler after a failure (SpecExtensions)

\* C21: a failed getHomePath is not sticky: an extension operation issued
\* after a getHomePath round trip has failed, while no handler is cached,
\* sends a new getHomePath; and a getHomePath that resolves constructs and
\* caches the handler and lets the operation run on it, whatever failed
\* before.
C21_FailureNotSticky ==
  [][/\ (Len(calls') = Len(calls) + 1 /\ homeFailed
         /\ extensionHandler = Undefined) =>
          /\ homeReqs' = homeReqs + 1
          /\ calls'[Len(calls')].pc = "awaitHome"
     /\ \A c \in CallIds :
          (/\ homeFailed
           /\ calls[c].pc = "awaitHome"
           /\ calls'[c].pc # "awaitHome"
           /\ invokeFailures' = invokeFailures)
          => /\ calls'[c].pc = "awaitOp"
             /\ extensionHandler' # Undefined
             /\ calls'[c].handler = extensionHandler'
             /\ constructed' = constructed + 1]_vars

C21_Witness ==
  /\ Len(calls) = 2
  /\ calls[1].pc = "rejected" /\ calls[1].handler = Undefined
  /\ calls[2].firstUse /\ calls[2].pc = "resolved"
  /\ calls[2].handler = extensionHandler
  /\ extensionHandler # Undefined
  /\ homeReqs = 2
  /\ constructed = 1
  /\ ~overlapped


\* ---- Workspace and the deep link (SpecWorkspaceLinks)

\* Steps in which the component mounts, and steps of a mounted component.
IsMount == ~mounted /\ mounted'
IsRender == mounted /\ mounted'

\* C22: the data source of the first deep link is applied at most once per
\* mount: selectSource is called only when the component mounts, for the ds
\* and the dsParams of the first link it mounts with, and not at all when
\* there is no link or the first one has no ds; no later run of the effect,
\* no change of the links and no second link adds a call.
C22_FirstLinkAppliedOnce ==
  /\ [](Len(selectSourceCalls) <= 1)
  /\ [][/\ IsRender => selectSourceCalls' = selectSourceCalls
        /\ IsMount =>
             LET target == targetUrlState(propsDeepLinks') IN
             selectSourceCalls' =
               IF target = Undefined \/ The(target).ds = Undefined THEN <<>>
               ELSE <<[ds |-> The(The(target).ds),
                       params |-> The(target).dsParams]>>]_vars

C22_Witness ==
  /\ mounted
  /\ renders = 3
  /\ selectSourceId = 2
  /\ selectEventId = 2
  /\ propsDeepLinks = Some(<<"lichtblick://open?ds=remote">>)
  /\ Len(selectSourceCalls) = 1
  /\ selectSourceCalls[1].ds = "sample"

\* The time of the link has not been sought yet.
TimePending == unappliedTime # Undefined /\ The(unappliedTime).time # Undefined

\* C23: the seek to the link's time is issued only in a render in which
\* playerPresence is PRESENT and a seek function is there; until such a
\* render the time stays pending, in it the seek is issued; and it is issued
\* at most once per mount, whatever playerPresence and seek do afterwards.
C23_SeekOnceWhenPresent ==
  /\ [](Len(seekCalls) <= 1)
  /\ [](TimePending => seekCalls = <<>>)
  /\ [][/\ Len(seekCalls') > Len(seekCalls) =>
             (playerPresence' = "PRESENT" /\ seek' # Undefined)
        /\ (IsRender /\ TimePending) =>
             IF playerPresence' = "PRESENT" /\ seek' # Undefined
               THEN seekCalls' = <<The(The(unappliedTime).time)>>
               ELSE unappliedTime' = unappliedTime /\ seekCalls' = <<>>]_vars

C23_Witness ==
  /\ mounted
  /\ renders = 3
  /\ seekCalls = <<"t2">>
  /\ seek = Some("seek2")
  /\ playerPresence = "RECONNECTING"
  /\ ~TimePending

\* ---- Workspace, dialog and top navigation (SpecWorkspaceShell)

\* C24: when playerPresence becomes PRESENT or INITIALIZING the data source
\* dialog is closed, when it becomes anything else the dialog is left as it
\* is; at mount the dialog is open exactly when the presence is NOT_PRESENT
\* and showOpenDialogOnStartup is true (its default).
C24_DialogClosedWhenPlayerActive ==
  [][/\ (IsRender /\ playerPresence' # playerPresence) =>
          IF playerPresence' \in {"PRESENT", "INITIALIZING"}
            THEN dataSource' = ClosedDialog
            ELSE dataSource' = dataSource
     /\ IsMount =>
          dataSource'.open =
            (/\ playerPresence' = "NOT_PRESENT"
             /\ The(mountedWith').showOpenDialogOnStartup # Some(FALSE))]_vars

C24_Witness ==
  /\ mounted
  /\ renders = 3
  /\ The(mountedWith).playerPresence = "NOT_PRESENT"
  /\ The(mountedWith).showOpenDialogOnStartup = Some(TRUE)
  /\ playerPresence = "ERROR"
  /\ dataSource = OpenDialog("connection")

\* C25: on the desktop the effective enableNewTopNav is the value of the
\* setting (true when unset) at mount and stays that until the component is
\* unmounted; on the web it is the current value of the setting.
C25_TopNavFrozenOnDesktop ==
  /\ []((mounted /\ ~desktopApp) =>
          enableNewTopNav = (topNavSetting # Some(FALSE)))
  /\ [][/\ IsMount => enableNewTopNav' = (topNavSetting' # Some(FALSE))
        /\ (IsRender /\ desktopApp) => enableNewTopNav' = enableNewTopNav]_vars

C25_Witness ==
  /\ mounted
  /\ desktopApp
  /\ enableNewTopNav
  /\ topNavSetting = Some(FALSE)
  /\ renders = 2

====
